---- MODULE Spec2Model ----
(***************************************************************************)
(* A model of pdf-maestro's merge core (src/merge.py):                     *)
(*   - PdfMergerThread.parse_page_selection, the page selection language,  *)
(*     as operators over strings represented as sequences of characters;   *)
(*   - PdfMergerThread.__init__ and PdfMergerThread.run, the merge job, as *)
(*     a state machine together with the caller that owns the live list    *)
(*     and the selections mapping handed to the constructor.               *)
(* Strings are sequences of one-character strings, so that split, strip,   *)
(* startswith, lower and int are computed character by character.          *)
(***************************************************************************)
EXTENDS Integers, Sequences, FiniteSets, TLC

----------------------------------------------------------------------------
(* Bounds of the model *)

\* longest selection string enumerated for the parser
MaxLen == 4

\* largest total_pages enumerated for the parser
MaxTotal == 3

\* longest document list handed to a merge job
MaxDocs == 3

\* largest page count of a document of a merge job
MaxPages == 2

\* number of mutations the caller makes to its list and mapping after submission
MaxMut == 1

\* longest document list of the progress-stream specification
MaxProgressDocs == 50

----------------------------------------------------------------------------
(* Python string primitives *)

Digits == {"0", "1", "2", "3", "4", "5", "6", "7", "8", "9"}

DigitVal(c) ==
    CASE c = "0" -> 0 [] c = "1" -> 1 [] c = "2" -> 2 [] c = "3" -> 3
      [] c = "4" -> 4 [] c = "5" -> 5 [] c = "6" -> 6 [] c = "7" -> 7
      [] c = "8" -> 8 [] c = "9" -> 9

\* str.lower() on one character (the letters the model's strings use)
LowerChar(c) ==
    CASE c = "A" -> "a" [] c = "L" -> "l" [] c = "X" -> "x" [] OTHER -> c

Lower(s) == [k \in 1..Len(s) |-> LowerChar(s[k])]

IsSpace(c) == c = " "

RECURSIVE LStrip(_)
LStrip(s) ==
    IF s # <<>> /\ IsSpace(Head(s)) THEN LStrip(Tail(s)) ELSE s

RECURSIVE RStrip(_)
RStrip(s) ==
    IF s # <<>> /\ IsSpace(s[Len(s)]) THEN RStrip(SubSeq(s, 1, Len(s) - 1)) ELSE s

\* str.strip()
Strip(s) == RStrip(LStrip(s))

\* position of the first occurrence of character c in s, 0 when absent
RECURSIVE FindFrom(_, _, _)
FindFrom(s, c, k) ==
    IF k > Len(s) THEN 0
    ELSE IF s[k] = c THEN k
    ELSE FindFrom(s, c, k + 1)

Find(s, c) == FindFrom(s, c, 1)

\* str.split(c): always at least one piece, empty pieces kept
RECURSIVE Split(_, _)
Split(s, c) ==
    LET p == Find(s, c)
    IN  IF p = 0 THEN <<s>>
        ELSE <<SubSeq(s, 1, p - 1)>> \o Split(SubSeq(s, p + 1, Len(s)), c)

\* str.split(c, 1) on a string that contains c: the text before and after the first c
SplitOnce(s, c) ==
    LET p == Find(s, c)
    IN  <<SubSeq(s, 1, p - 1), SubSeq(s, p + 1, Len(s))>>

\* value of a non-empty string of decimal digits
RECURSIVE DigitsValue(_)
DigitsValue(s) ==
    IF s = <<>> THEN 0
    ELSE 10 * DigitsValue(SubSeq(s, 1, Len(s) - 1)) + DigitVal(s[Len(s)])

AllDigits(s) == s # <<>> /\ \A k \in 1..Len(s) : s[k] \in Digits

\* the digits a string starts with
RECURSIVE DigitPrefix(_)
DigitPrefix(s) ==
    IF s # <<>> /\ s[1] \in Digits THEN <<s[1]>> \o DigitPrefix(Tail(s)) ELSE <<>>

\* PyInt reading the leading digits and ignoring what follows them
PyInt_LeadingDigits(text) ==
    LET t == Strip(text)
    IN  IF DigitPrefix(t) # <<>>
        THEN [ok |-> TRUE, val |-> DigitsValue(DigitPrefix(t))]
        ELSE [ok |-> FALSE, val |-> 0]

\* int(text): surrounding whitespace is ignored, one optional sign, then
\* decimal digits; anything else raises ValueError (ok = FALSE)
PyInt(text) ==
    LET t    == Strip(text)
        sign == IF t # <<>> /\ t[1] \in {"-", "+"} THEN t[1] ELSE ""
        body == IF sign = "" THEN t ELSE Tail(t)
    IN  IF AllDigits(body)
        THEN [ok |-> TRUE,
              val |-> IF sign = "-" THEN 0 - DigitsValue(body) ELSE DigitsValue(body)]
        ELSE [ok |-> FALSE, val |-> 0]

Max(a, b) == IF a >= b THEN a ELSE b
Min(a, b) == IF a <= b THEN a ELSE b

\* set(range(lo, hi))
RangeSet(lo, hi) == {k \in lo..(hi - 1) : TRUE}

\* sorted(S) for a finite set of integers
RECURSIVE Sorted(_)
Sorted(S) ==
    IF S = {} THEN <<>>
    ELSE LET m == CHOOSE x \in S : \A y \in S : x <= y
         IN  <<m>> \o Sorted(S \ {m})

----------------------------------------------------------------------------
(* PdfMergerThread.parse_page_selection *)

\* RangePart dropping an item whose end lies beyond the last page
RangePart_DiscardsOutOfRange(part, is_exclude, total_pages, acc) ==
    LET se        == SplitOnce(part, "-")
        start     == se[1]
        end       == se[2]
        s         == PyInt(start)
        e         == PyInt(end)
        failed    == (start # <<>> /\ ~s.ok) \/ (end # <<>> /\ ~e.ok)
        start_idx == Max(0, IF start # <<>> THEN s.val - 1 ELSE 0)
        end_idx   == IF end # <<>> THEN e.val - 1 ELSE total_pages - 1
        page_range == RangeSet(start_idx, end_idx + 1)
    IN  IF failed \/ end_idx > total_pages - 1 THEN acc
        ELSE IF is_exclude
        THEN [acc EXCEPT !.exc = @ \cup page_range]
        ELSE [acc EXCEPT !.inc = @ \cup page_range]

\* the range branch of the loop body: start and end are both converted
\* before either set is touched, and a ValueError drops the whole item
RangePart(part, is_exclude, total_pages, acc) ==
    LET se        == SplitOnce(part, "-")
        start     == se[1]
        end       == se[2]
        s         == PyInt(start)
        e         == PyInt(end)
        failed    == (start # <<>> /\ ~s.ok) \/ (end # <<>> /\ ~e.ok)
        start_idx == Max(0, IF start # <<>> THEN s.val - 1 ELSE 0)
        end_idx   == Min(total_pages - 1, IF end # <<>> THEN e.val - 1 ELSE total_pages - 1)
        page_range == RangeSet(start_idx, end_idx + 1)
    IN  IF failed THEN acc
        ELSE IF is_exclude
        THEN [acc EXCEPT !.exc = @ \cup page_range]
        ELSE [acc EXCEPT !.inc = @ \cup page_range]

\* SinglePart without the test 0 <= page_idx < total_pages
SinglePart_Unchecked(part, is_exclude, total_pages, acc) ==
    LET p        == PyInt(part)
        page_idx == p.val - 1
    IN  IF ~p.ok THEN acc
        ELSE IF is_exclude
        THEN [acc EXCEPT !.exc = @ \cup {page_idx}]
        ELSE [acc EXCEPT !.inc = @ \cup {page_idx}]

\* the single-page branch of the loop body
SinglePart(part, is_exclude, total_pages, acc) ==
    LET p        == PyInt(part)
        page_idx == p.val - 1
    IN  IF ~p.ok THEN acc
        ELSE IF 0 <= page_idx /\ page_idx < total_pages
        THEN IF is_exclude
             THEN [acc EXCEPT !.exc = @ \cup {page_idx}]
             ELSE [acc EXCEPT !.inc = @ \cup {page_idx}]
        ELSE acc

\* one iteration of the loop over selection_str.split(',')
ParsePart(raw, total_pages, acc) ==
    LET stripped   == Strip(raw)
        is_exclude == stripped # <<>> /\ stripped[1] = "-"
        part       == IF is_exclude THEN Tail(stripped) ELSE stripped
    IN  IF stripped = <<>> THEN acc
        ELSE IF Find(part, "-") # 0
        THEN RangePart(part, is_exclude, total_pages, acc)
        ELSE SinglePart(part, is_exclude, total_pages, acc)

\* the loop: the accumulators after parts k..Len(parts) starting from acc
RECURSIVE ParseLoop(_, _, _, _)
ParseLoop(parts, k, total_pages, acc) ==
    IF k > Len(parts) THEN acc
    ELSE ParseLoop(parts, k + 1, total_pages, ParsePart(parts[k], total_pages, acc))

\* SelectResult removing the excluded pages from the all-pages base only
SelectResult_IncludesWin(pages_to_include, pages_to_exclude, all_pages) ==
    IF pages_to_include # {} THEN pages_to_include ELSE all_pages \ pages_to_exclude

\* the choice of the base set and the removal of the excluded pages
SelectResult(pages_to_include, pages_to_exclude, all_pages) ==
    (IF pages_to_include # {} THEN pages_to_include ELSE all_pages) \ pages_to_exclude

parse_page_selection(selection_str, total_pages) ==
    IF selection_str = <<>> \/ Lower(selection_str) = <<"a", "l", "l">>
    THEN Sorted(RangeSet(0, total_pages))
    ELSE LET all_pages == RangeSet(0, total_pages)
             acc == ParseLoop(Split(selection_str, ","), 1, total_pages,
                              [inc |-> {}, exc |-> {}])
         IN  Sorted(SelectResult(acc.inc, acc.exc, all_pages))

----------------------------------------------------------------------------
(* The documents, the selection strings and the messages of a merge job *)

\* a path is <<directory, file name>>
Paths == {<<"p", "a2.pdf">>, <<"p", "b1.pdf">>, <<"q", "a2.pdf">>}

\* os.path.basename
Basename(path) == path[2]

\* the item texts the list widget shows for a list of paths
NamesOf(list) == [k \in 1..Len(list) |-> Basename(list[k])]

\* the selection strings a caller stores in its mapping (a file without an
\* entry gets the default "-1")
SelChoices == {<<>>, <<"2">>}

\* a key the selections mapping does not hold
Absent == <<"absent">>

\* the default of page_selections.get(pdf_file, "-1")
DefaultSelection == <<"-", "1">>

\* dict.get(key, default)
DictGet(mapping, key, default) ==
    IF mapping[key] = Absent THEN default ELSE mapping[key]

EmptyDict == [p \in Paths |-> Absent]

\* truth value of a dict: false exactly when it holds no key
DictTruthy(mapping) == \E p \in Paths : mapping[p] # Absent

\* int((i / len(self.pdf_files)) * 100) in double-precision arithmetic.  The
\* quotient i / n is the double nearest to the rational i / n and the product
\* is rounded again.  When 100 * i / n is no integer it lies at least 1 / n
\* from one, far more than the rounding error, and int() gives its floor.
\* When it is an integer m the quotient is the double nearest to m / 100, and
\* the product falls just short of m for m = 29, 57 and 58 (0.29 * 100 is
\* 28.999999999999996), which int() truncates to m - 1.
FloatShort == {29, 57, 58}

Progress(i, n) ==
    LET exact == (100 * i) \div n
    IN  IF (100 * i) % n = 0 /\ exact \in FloatShort THEN exact - 1 ELSE exact

\* what PdfReader(pdf_file) and len(pdf_reader.pages) and pdf_reader.pages[k]
\* do for one file: the open raises, or it yields `pages` pages whose reading
\* raises when `reads` is false
FileOutcomes ==
    {[known |-> TRUE, opens |-> FALSE, pages |-> 0, reads |-> FALSE]}
    \cup {[known |-> TRUE, opens |-> TRUE, pages |-> n, reads |-> TRUE] : n \in 0..MaxPages}
    \cup {[known |-> TRUE, opens |-> TRUE, pages |-> MaxPages, reads |-> FALSE]}

Unknown == [known |-> FALSE, opens |-> FALSE, pages |-> 0, reads |-> FALSE]

MsgErrorProcessing(path) == <<"Error processing", Basename(path)>>
MsgNoPages == <<"No pages to merge after applying page selections">>
MsgErrorDuringMerge == <<"Error during merge">>
MsgSuccess == <<"Successfully merged">>

NoText == <<>>

EvProgress(value) ==
    [kind |-> "progress", doc |-> 0, n |-> value, text |-> NoText, pages |-> <<>>,
     ok |-> FALSE, msg |-> NoText]
EvOpen(d, total) ==
    [kind |-> "open", doc |-> d, n |-> total, text |-> NoText, pages |-> <<>>,
     ok |-> TRUE, msg |-> NoText]
EvOpenFailed(d) ==
    [kind |-> "open_failed", doc |-> d, n |-> 0, text |-> NoText, pages |-> <<>>,
     ok |-> FALSE, msg |-> NoText]
EvSelect(d, total, selection, resolved) ==
    [kind |-> "select", doc |-> d, n |-> total, text |-> selection, pages |-> resolved,
     ok |-> TRUE, msg |-> NoText]
EvReadFailed(d) ==
    [kind |-> "read_failed", doc |-> d, n |-> 0, text |-> NoText, pages |-> <<>>,
     ok |-> FALSE, msg |-> NoText]
EvOutOpen ==
    [kind |-> "out_open", doc |-> 0, n |-> 0, text |-> NoText, pages |-> <<>>,
     ok |-> TRUE, msg |-> NoText]
EvOutWritten ==
    [kind |-> "out_written", doc |-> 0, n |-> 0, text |-> NoText, pages |-> <<>>,
     ok |-> TRUE, msg |-> NoText]
EvFinished(success, message) ==
    [kind |-> "finished", doc |-> 0, n |-> 0, text |-> NoText, pages |-> <<>>,
     ok |-> success, msg |-> message]

----------------------------------------------------------------------------
(* State *)

VARIABLES
    parse_selection,    \* parser: the string handed to parse_page_selection
    parse_total,        \* parser: the page count handed to parse_page_selection
    parse_pc,           \* parser: "ready" before the call, "returned" after it
    parse_result,       \* parser: the list the call returned
    caller_files,       \* the caller's live list of paths
    caller_selections,  \* the caller's selections mapping
    submitted_files,    \* the list as it was when the job was constructed
    submitted_selections, \* the mapping as it was when the job was constructed
    mutations,          \* number of caller mutations after construction
    pdf_files,          \* PdfMergerThread.pdf_files
    sel_shared,         \* PdfMergerThread.page_selections is the caller's dict object
    pc,                 \* position of the job
    i,                  \* loop index of run (0-based)
    cur_total,          \* total_pages of the document being processed
    writer,             \* pdf_writer.pages
    events,             \* everything the job did and emitted, in order
    fs,                 \* what each input file turned out to hold, once read
    disk,               \* the output destination
    file_list,          \* PDFMergerApp.file_list: the item texts of the list widget
    drag_enabled        \* PDFMergerApp.drag_enabled

parse_vars == <<parse_selection, parse_total, parse_pc, parse_result>>
caller_vars == <<caller_files, caller_selections, mutations>>
submit_vars == <<submitted_files, submitted_selections>>
thread_vars == <<pdf_files, sel_shared>>
run_vars == <<pc, i, cur_total, writer, events, fs, disk>>
app_vars == <<file_list, drag_enabled>>
vars == <<parse_vars, caller_vars, submit_vars, thread_vars, run_vars, app_vars>>

\* self.page_selections as the worker reads it
page_selections == IF sel_shared THEN caller_selections ELSE EmptyDict

\* the destination before the job: whatever it held, untouched
Untouched == [touched |-> FALSE, content |-> <<>>]

----------------------------------------------------------------------------
(* The caller and PdfMergerThread.__init__ *)

\* lists of at most n paths
ListsUpTo(n) == UNION {[1..k -> Paths] : k \in 0..n}

InList(path, list) == \E k \in 1..Len(list) : list[k] = path

\* the mappings a caller can hold for a list: the dialog keeps an entry only
\* for listed files
SelectionsFor(list) ==
    {m \in [Paths -> SelChoices \cup {Absent}] :
        \A p \in Paths : ~InList(p, list) => m[p] = Absent}

\* list.copy()
ListCopy(list) == list

\* `page_selections or {}`: the caller's own dict object when it is truthy,
\* a fresh empty dict otherwise; no copy is taken
SharesSelections(mapping) == DictTruthy(mapping)

\* PdfMergerThread(pdf_files, output_file, page_selections)
Construct ==
    /\ pc = "init"
    /\ pdf_files' = ListCopy(caller_files)
    /\ sel_shared' = SharesSelections(caller_selections)
    /\ submitted_files' = caller_files
    /\ submitted_selections' = caller_selections
    /\ pc' = "constructed"
    /\ UNCHANGED <<parse_vars, app_vars, caller_vars, i, cur_total, writer, events, fs, disk>>

Running == pc \notin {"init", "done"}

RemoveAt(list, k) == SubSeq(list, 1, k - 1) \o SubSeq(list, k + 1, Len(list))

\* the caller edits its list in place while the job exists: clear(), pop(row),
\* append(file)
CallerMutateList ==
    /\ Running
    /\ mutations < MaxMut
    /\ \/ caller_files # <<>> /\ caller_files' = <<>> /\ file_list' = <<>>
       \/ \E k \in 1..Len(caller_files) :
            /\ caller_files' = RemoveAt(caller_files, k)
            /\ file_list' = RemoveAt(file_list, k)
       \/ \E p \in Paths :
            /\ ~InList(p, caller_files)
            /\ caller_files' = Append(caller_files, p)
            /\ file_list' = Append(file_list, Basename(p))
    /\ mutations' = mutations + 1
    /\ UNCHANGED <<parse_vars, drag_enabled, caller_selections, submit_vars, thread_vars, run_vars>>

\* the caller stores another selection under a key of its mapping
CallerMutateSelections ==
    /\ Running
    /\ mutations < MaxMut
    /\ \E p \in Paths, s \in SelChoices :
          /\ InList(p, pdf_files)
          /\ caller_selections[p] # s
          /\ caller_selections' = [caller_selections EXCEPT ![p] = s]
    /\ mutations' = mutations + 1
    /\ UNCHANGED <<parse_vars, app_vars, caller_files, submit_vars, thread_vars, run_vars>>

----------------------------------------------------------------------------
(* PdfMergerThread.run *)

Emit(ev) == events' = Append(events, ev)

\* the document of loop index i
pdf_file == pdf_files[i + 1]

\* pdf_writer = PdfWriter()
RunStart ==
    /\ pc = "constructed"
    /\ pc' = "loop"
    /\ i' = 0
    /\ writer' = <<>>
    /\ UNCHANGED <<parse_vars, app_vars, caller_vars, submit_vars, thread_vars, cur_total, events, fs, disk>>

\* top of one loop iteration: the progress value of document i
LoopProgress ==
    /\ pc = "loop"
    /\ i < Len(pdf_files)
    /\ Emit(EvProgress(Progress(i, Len(pdf_files))))
    /\ pc' = "open"
    /\ UNCHANGED <<parse_vars, app_vars, caller_vars, submit_vars, thread_vars, i, cur_total, writer, fs, disk>>

\* the file behind pdf_file is read for the first time: what it holds is fixed now
Discover(path, outcome) ==
    IF fs[path].known
    THEN outcome = fs[path] /\ fs' = fs
    ELSE fs' = [fs EXCEPT ![path] = outcome]

\* DocumentError going on with the next document instead of returning
DocumentError_Continue(ev) ==
    /\ events' = events \o <<ev, EvFinished(FALSE, MsgErrorProcessing(pdf_file))>>
    /\ pc' = "loop"
    /\ i' = i + 1
    /\ UNCHANGED <<cur_total, writer>>

\* the except branch of the loop body: one failure outcome, then return
DocumentError(ev) ==
    /\ events' = events \o <<ev, EvFinished(FALSE, MsgErrorProcessing(pdf_file))>>
    /\ pc' = "done"
    /\ UNCHANGED <<i, cur_total, writer>>

\* PdfReader(pdf_file) and len(pdf_reader.pages)
OpenDocument ==
    /\ pc = "open"
    /\ \E outcome \in FileOutcomes :
          /\ Discover(pdf_file, outcome)
          /\ IF outcome.opens
             THEN /\ Emit(EvOpen(i + 1, outcome.pages))
                  /\ cur_total' = outcome.pages
                  /\ pc' = "select"
                  /\ UNCHANGED <<i, writer>>
             ELSE DocumentError(EvOpenFailed(i + 1))
    /\ UNCHANGED <<parse_vars, app_vars, caller_vars, submit_vars, thread_vars, disk>>

\* AddPages putting the pages of the document in front of the earlier ones
AddPages_InFront(pages, d, path, resolved) ==
    [k \in 1..Len(resolved) |-> [doc |-> d, path |-> path, page |-> resolved[k]]] \o pages

\* for page_num in pages_to_include: pdf_writer.add_page(pdf_reader.pages[page_num])
AddPages(pages, d, path, resolved) ==
    pages \o [k \in 1..Len(resolved) |-> [doc |-> d, path |-> path, page |-> resolved[k]]]

\* self.parse_page_selection(selection_str, total_pages) on the selections
\* and page counts of a job, computed once per argument pair
Resolve ==
    [s \in SelChoices \cup {DefaultSelection} |->
        [n \in 0..MaxPages |-> parse_page_selection(s, n)]]

\* the selection of the document is looked up, parsed and its pages are added
SelectPages ==
    /\ pc = "select"
    /\ LET selection == DictGet(page_selections, pdf_file, DefaultSelection)
           pages_to_include == Resolve[selection][cur_total]
       IN  IF pages_to_include # <<>> /\ ~fs[pdf_file].reads
           THEN DocumentError(EvReadFailed(i + 1))
           ELSE /\ Emit(EvSelect(i + 1, cur_total, selection, pages_to_include))
                /\ writer' = AddPages(writer, i + 1, pdf_file, pages_to_include)
                /\ i' = i + 1
                /\ pc' = "loop"
                /\ UNCHANGED cur_total
    /\ UNCHANGED <<parse_vars, app_vars, caller_vars, submit_vars, thread_vars, fs, disk>>

\* CheckPages without the test on the number of pages
CheckPages_AlwaysWrites ==
    /\ pc = "loop"
    /\ i = Len(pdf_files)
    /\ pc' = "open_out"
    /\ UNCHANGED <<parse_vars, app_vars, caller_vars, submit_vars, thread_vars, i, cur_total, writer, events, fs, disk>>

\* after the loop: `if len(pdf_writer.pages) > 0`, else the failure outcome
CheckPages ==
    /\ pc = "loop"
    /\ i = Len(pdf_files)
    /\ IF Len(writer) > 0
       THEN pc' = "open_out" /\ UNCHANGED events
       ELSE Emit(EvFinished(FALSE, MsgNoPages)) /\ pc' = "done"
    /\ UNCHANGED <<parse_vars, app_vars, caller_vars, submit_vars, thread_vars, i, cur_total, writer, fs, disk>>

\* the outer except branch: one failure outcome
MergeError ==
    /\ Emit(EvFinished(FALSE, MsgErrorDuringMerge))
    /\ pc' = "done"

\* open(self.output_file, 'wb') succeeds: the destination is truncated
OpenOutput ==
    /\ pc = "open_out"
    /\ disk' = [touched |-> TRUE, content |-> <<>>]
    /\ Emit(EvOutOpen)
    /\ pc' = "write"
    /\ UNCHANGED <<parse_vars, app_vars, caller_vars, submit_vars, thread_vars, i, cur_total, writer, fs>>

\* open(self.output_file, 'wb') raises: nothing was touched
OpenOutputFails ==
    /\ pc = "open_out"
    /\ MergeError
    /\ UNCHANGED <<parse_vars, app_vars, caller_vars, submit_vars, thread_vars, i, cur_total, writer, fs, disk>>

\* pdf_writer.write(out_file) completes and the file is closed
WriteOutput ==
    /\ pc = "write"
    /\ disk' = [touched |-> TRUE, content |-> writer]
    /\ Emit(EvOutWritten)
    /\ pc' = "progress100"
    /\ UNCHANGED <<parse_vars, app_vars, caller_vars, submit_vars, thread_vars, i, cur_total, writer, fs>>

\* WriteOutputFails reporting the failure and going on to the success report
WriteOutputFails_FallsThrough ==
    /\ pc = "write"
    /\ \E k \in 0..(Len(writer) - 1) :
          disk' = [touched |-> TRUE, content |-> SubSeq(writer, 1, k)]
    /\ Emit(EvFinished(FALSE, MsgErrorDuringMerge))
    /\ pc' = "progress100"
    /\ UNCHANGED <<parse_vars, app_vars, caller_vars, submit_vars, thread_vars, i, cur_total, writer, fs>>

\* pdf_writer.write(out_file) raises part-way: what was written so far stays
WriteOutputFails ==
    /\ pc = "write"
    /\ \E k \in 0..(Len(writer) - 1) :
          disk' = [touched |-> TRUE, content |-> SubSeq(writer, 1, k)]
    /\ MergeError
    /\ UNCHANGED <<parse_vars, app_vars, caller_vars, submit_vars, thread_vars, i, cur_total, writer, fs>>

\* self.update_progress.emit(100)
EmitProgress100 ==
    /\ pc = "progress100"
    /\ Emit(EvProgress(100))
    /\ pc' = "finish"
    /\ UNCHANGED <<parse_vars, app_vars, caller_vars, submit_vars, thread_vars, i, cur_total, writer, fs, disk>>

\* self.finished_signal.emit(True, ...)
EmitSuccess ==
    /\ pc = "finish"
    /\ Emit(EvFinished(TRUE, MsgSuccess))
    /\ pc' = "done"
    /\ UNCHANGED <<parse_vars, app_vars, caller_vars, submit_vars, thread_vars, i, cur_total, writer, fs, disk>>

RunNext ==
    \/ RunStart
    \/ LoopProgress
    \/ OpenDocument
    \/ SelectPages
    \/ CheckPages
    \/ OpenOutput
    \/ OpenOutputFails
    \/ WriteOutput
    \/ WriteOutputFails
    \/ EmitProgress100
    \/ EmitSuccess

----------------------------------------------------------------------------
(* Specification of a merge job with its caller *)

ParseIdle ==
    /\ parse_selection = <<>>
    /\ parse_total = 0
    /\ parse_pc = "idle"
    /\ parse_result = <<>>

JobIdle ==
    /\ submitted_files = <<>>
    /\ submitted_selections = EmptyDict
    /\ mutations = 0
    /\ pdf_files = <<>>
    /\ sel_shared = FALSE
    /\ pc = "init"
    /\ i = 0
    /\ cur_total = 0
    /\ writer = <<>>
    /\ events = <<>>
    /\ disk = Untouched

\* the window shows the caller's list, drag and drop ordering switched off
ListShown ==
    /\ file_list = NamesOf(caller_files)
    /\ drag_enabled = FALSE

Init ==
    /\ ParseIdle
    /\ JobIdle
    /\ caller_files \in ListsUpTo(MaxDocs)
    /\ caller_selections \in SelectionsFor(caller_files)
    /\ fs = [p \in Paths |-> Unknown]
    /\ ListShown

Next ==
    \/ Construct
    \/ RunNext

Spec == Init /\ [][Next]_vars

\* the caller constructs and starts the thread it created, and the started
\* worker is scheduled until run returns: every step that can be taken is taken
SpecLive == Init /\ [][Next]_vars /\ WF_vars(Next)

----------------------------------------------------------------------------
(* Specification of a merge job whose caller keeps editing its list and its
   mapping while the worker runs *)

NextCaller ==
    \/ Next
    \/ CallerMutateList
    \/ CallerMutateSelections

SpecCaller == Init /\ [][NextCaller]_vars

----------------------------------------------------------------------------
(* Specification of the progress stream of long jobs: up to MaxProgressDocs
   entries, all naming one file, no selections given *)

InitProgress ==
    /\ ParseIdle
    /\ JobIdle
    /\ caller_files \in {[k \in 1..n |-> <<"p", "a2.pdf">>] : n \in 1..MaxProgressDocs}
    /\ caller_selections = EmptyDict
    /\ fs = [p \in Paths |-> Unknown]
    /\ ListShown

SpecProgress == InitProgress /\ [][Next]_vars

----------------------------------------------------------------------------
(* Specification of parse_page_selection on its own *)

\* the characters of the enumerated selection strings
Alphabet == {"0", "1", "2", "-", "+", ",", " ", "x"}

StringsUpTo(n) == UNION {[1..k -> Alphabet] : k \in 0..n}

\* longer inputs: the examples of the documentation and of the help text
Examples ==
    { <<<<"1", ",", "3", ",", "5", "-", "7">>, 10>>,
      <<<<"-", "1">>, 5>>,
      <<<<"-", "1", ",", "-", "3">>, 5>>,
      <<<<"-", "1", "-", "3">>, 5>>,
      <<<<"-", "1", "-", "2">>, 5>>,
      <<<<"5", "-", "1", "0", "0", "0">>, 10>>,
      <<<<"1", ",", "a", "b", "c", ",", "3">>, 5>>,
      <<<<"1", ",", "3", "x", ",", "5">>, 5>>,
      <<<<"1", ",", ",", "3">>, 5>>,
      <<<<"1", ",", "3">>, 5>>,
      <<<<"a", "l", "l">>, 5>>,
      <<<<"A", "l", "L">>, 5>>,
      <<<<"2", "0">>, 10>>,
      <<<<"1", ",", "-", "1">>, 5>>,
      <<<<"3", "-">>, 6>>,
      <<<<"2", "-", "1", "0", ",", "2">>, 4>>,
      <<<<"1", "-", "2", ",", "-", "1">>, 3>>,
      <<<<"0">>, 5>>,
      <<<<"0", "-", "3">>, 5>>,
      <<<<"1", "-", "-", "3">>, 5>> }

InitParse ==
    /\ JobIdle
    /\ caller_files = <<>>
    /\ caller_selections = EmptyDict
    /\ fs = [p \in Paths |-> Unknown]
    /\ ListShown
    /\ parse_pc = "ready"
    /\ parse_result = <<>>
    /\ \/ parse_selection \in StringsUpTo(MaxLen) /\ parse_total \in 0..MaxTotal
       \/ \E ex \in Examples : parse_selection = ex[1] /\ parse_total = ex[2]

\* pages_to_include = self.parse_page_selection(selection_str, total_pages)
ParseCall ==
    /\ parse_pc = "ready"
    /\ parse_result' = parse_page_selection(parse_selection, parse_total)
    /\ parse_pc' = "returned"
    /\ UNCHANGED <<parse_selection, parse_total, app_vars, caller_vars, submit_vars, thread_vars, run_vars>>

NextParse == ParseCall

SpecParse == InitParse /\ [][NextParse]_vars

----------------------------------------------------------------------------
(* PDFMergerApp: the list of files and the handlers that edit and reorder it.
   caller_files is PDFMergerApp.pdf_files; pc = "init" while no job exists and
   the window is enabled *)

\* the characters of a file name
NameChars(name) ==
    CASE name = "a2.pdf" -> <<"a", "2", ".", "p", "d", "f">>
      [] name = "b1.pdf" -> <<"b", "1", ".", "p", "d", "f">>

\* code point of a character, the order Python compares strings by
Ord(c) ==
    CASE c = "." -> 46
      [] c \in Digits -> 48 + DigitVal(c)
      [] c = "a" -> 97 [] c = "b" -> 98 [] c = "d" -> 100
      [] c = "f" -> 102 [] c = "p" -> 112

\* s < t for two strings
RECURSIVE LexLess(_, _)
LexLess(s, t) ==
    IF t = <<>> THEN FALSE
    ELSE IF s = <<>> THEN TRUE
    ELSE IF s[1] = t[1] THEN LexLess(Tail(s), Tail(t))
    ELSE Ord(s[1]) < Ord(t[1])

\* list.sort(key=...): the order is by key and, for equal keys, by position;
\* less holds the pairs of paths whose keys compare as smaller
StableSorted(list, less) ==
    LET n == Len(list)
        Before(a, b) ==
            \/ <<list[a], list[b]>> \in less
            \/ <<list[b], list[a]>> \notin less /\ a < b
        Rank(a) == 1 + Cardinality({b \in 1..n : Before(b, a)})
    IN  [r \in 1..n |-> list[CHOOSE a \in 1..n : Rank(a) = r]]

\* key=lambda x: x[0].lower() on the (filename, filepath) pairs
AlphaLess ==
    {pq \in Paths \X Paths :
        LexLess(Lower(NameChars(Basename(pq[1]))), Lower(NameChars(Basename(pq[2]))))}

\* re.findall(r'\d+', filename)[0]: the first run of digits, <<>> without one
RECURSIVE FirstNumber(_)
FirstNumber(chars) ==
    IF chars = <<>> THEN <<>>
    ELSE IF chars[1] \in Digits THEN DigitPrefix(chars)
    ELSE FirstNumber(Tail(chars))

extract_number(filename) ==
    IF FirstNumber(NameChars(filename)) = <<>> THEN 0
    ELSE DigitsValue(FirstNumber(NameChars(filename)))

\* key=lambda x: extract_number(x[0])
NumLess ==
    {pq \in Paths \X Paths :
        extract_number(Basename(pq[1])) < extract_number(Basename(pq[2]))}

\* the list with the entries at rows a and b (1-based) exchanged
Swap(list, a, b) == [list EXCEPT ![a] = list[b], ![b] = list[a]]

\* the list after its entry at row a was taken out and inserted at row b
MoveRow(list, a, b) ==
    LET rest == RemoveAt(list, a)
    IN  SubSeq(rest, 1, b - 1) \o <<list[a]>> \o SubSeq(rest, b, Len(rest))

\* pop(row) for the selected rows, from bottom to top
RECURSIVE RemoveRows(_, _)
RemoveRows(list, rows) ==
    IF rows = {} THEN list
    ELSE LET row == CHOOSE r \in rows : \A q \in rows : q <= r
         IN  RemoveRows(RemoveAt(list, row), rows \ {row})

\* the loop of add_pdf_files: files k..Len(files) appended unless listed
RECURSIVE AppendNew(_, _, _)
AppendNew(list, files, k) ==
    IF k > Len(files) THEN list
    ELSE AppendNew(IF InList(files[k], list) THEN list ELSE Append(list, files[k]),
                   files, k + 1)

\* what the file dialog returns: some files, each once
FileChoices ==
    {files \in ListsUpTo(MaxDocs) :
        /\ files # <<>>
        /\ \A a, b \in 1..Len(files) : files[a] = files[b] => a = b}

WindowEnabled == pc = "init"

RestIdle == UNCHANGED <<parse_vars, caller_selections, mutations, submit_vars, thread_vars, run_vars>>

add_pdf_files ==
    /\ WindowEnabled
    /\ \E files \in FileChoices :
          LET added == AppendNew(caller_files, files, 1)
          IN  /\ Len(added) <= MaxDocs
              /\ caller_files' = added
              /\ file_list' = file_list \o
                    NamesOf(SubSeq(added, Len(caller_files) + 1, Len(added)))
    /\ UNCHANGED drag_enabled
    /\ RestIdle

remove_selected_files ==
    /\ WindowEnabled
    /\ \E selected_rows \in SUBSET (1..Len(file_list)) :
          /\ selected_rows # {}
          /\ file_list' = RemoveRows(file_list, selected_rows)
          /\ caller_files' = RemoveRows(caller_files, selected_rows)
    /\ UNCHANGED drag_enabled
    /\ RestIdle

clear_files ==
    /\ WindowEnabled
    /\ file_list' = <<>>
    /\ caller_files' = <<>>
    /\ UNCHANGED drag_enabled
    /\ RestIdle

\* current_row is the 0-based row the user made current, -1 for none
move_file_up ==
    /\ WindowEnabled
    /\ \E current_row \in (0 - 1)..(Len(file_list) - 1) :
          IF current_row > 0
          THEN /\ file_list' = Swap(file_list, current_row + 1, current_row)
               /\ caller_files' = Swap(caller_files, current_row + 1, current_row)
          ELSE UNCHANGED <<file_list, caller_files>>
    /\ UNCHANGED drag_enabled
    /\ RestIdle

\* a current row of -1 passes the test when the list is not empty: item -1
\* of the widget does not exist, so nothing is taken or inserted; either the
\* binding rejects the missing item and the handler ends there, or the Python
\* list goes on to exchange its entries -1 and 0, the last and the first
move_file_down ==
    /\ WindowEnabled
    /\ \E current_row \in (0 - 1)..(Len(file_list) - 1) :
          IF current_row < Len(file_list) - 1
          THEN IF current_row >= 0
               THEN /\ file_list' = Swap(file_list, current_row + 1, current_row + 2)
                    /\ caller_files' = Swap(caller_files, current_row + 1, current_row + 2)
               ELSE /\ file_list' = file_list
                    /\ \/ caller_files' = caller_files
                       \/ caller_files' = Swap(caller_files, Len(caller_files), 1)
          ELSE UNCHANGED <<file_list, caller_files>>
    /\ UNCHANGED drag_enabled
    /\ RestIdle

\* the list widget cleared and filled again from pdf_files
refresh_file_list(list) == file_list' = NamesOf(list)

sort_alphabetically ==
    /\ WindowEnabled
    /\ caller_files # <<>>
    /\ caller_files' = StableSorted(caller_files, AlphaLess)
    /\ refresh_file_list(caller_files')
    /\ UNCHANGED drag_enabled
    /\ RestIdle

sort_numerically ==
    /\ WindowEnabled
    /\ caller_files # <<>>
    /\ caller_files' = StableSorted(caller_files, NumLess)
    /\ refresh_file_list(caller_files')
    /\ UNCHANGED drag_enabled
    /\ RestIdle

\* filename_to_path: the last listed path of each file name
FilenameToPath(list, filename) ==
    list[CHOOSE k \in 1..Len(list) :
            /\ Basename(list[k]) = filename
            /\ \A j \in (k + 1)..Len(list) : Basename(list[j]) # filename]

\* pdf_files after update_pdf_files_from_list, for the widget's item texts
update_pdf_files_from_list(list, texts) ==
    LET known(filename) == \E k \in 1..Len(list) : Basename(list[k]) = filename
        found     == SelectSeq(texts, known)
        new_order == [k \in 1..Len(found) |-> FilenameToPath(list, found[k])]
    IN  IF Len(new_order) = Len(list) THEN new_order ELSE list

\* the checkable button changed state
toggle_drag_drop ==
    /\ WindowEnabled
    /\ drag_enabled' = ~drag_enabled
    /\ IF drag_enabled'
       THEN UNCHANGED caller_files
       ELSE caller_files' = update_pdf_files_from_list(caller_files, file_list)
    /\ UNCHANGED file_list
    /\ RestIdle

\* the user drags one item to another row; the widget moves it and rowsMoved
\* calls update_pdf_files_from_list
DragRow ==
    /\ WindowEnabled
    /\ drag_enabled
    /\ \E from, to \in 1..Len(file_list) :
          /\ from # to
          /\ file_list' = MoveRow(file_list, from, to)
          /\ caller_files' = update_pdf_files_from_list(caller_files, file_list')
    /\ UNCHANGED drag_enabled
    /\ RestIdle

\* the user leaves one of the dialogs, or accepts them all and the job is
\* constructed from a copy of the list and the selections of the dialog
merge_pdfs ==
    /\ WindowEnabled
    /\ caller_files # <<>>
    /\ caller_files' = IF drag_enabled
                       THEN update_pdf_files_from_list(caller_files, file_list)
                       ELSE caller_files
    /\ \/ UNCHANGED <<caller_selections, submit_vars, thread_vars, pc>>
       \/ \E selections \in SelectionsFor(caller_files') :
            /\ caller_selections' = selections
            /\ pdf_files' = ListCopy(caller_files')
            /\ sel_shared' = SharesSelections(selections)
            /\ submitted_files' = caller_files'
            /\ submitted_selections' = selections
            /\ pc' = "constructed"
    /\ UNCHANGED <<parse_vars, app_vars, mutations, i, cur_total, writer, events, fs, disk>>

\* PDFMergerApp.__init__
InitApp ==
    /\ ParseIdle
    /\ JobIdle
    /\ caller_files = <<>>
    /\ caller_selections = EmptyDict
    /\ fs = [p \in Paths |-> Unknown]
    /\ ListShown

NextApp ==
    \/ add_pdf_files
    \/ remove_selected_files
    \/ clear_files
    \/ move_file_up
    \/ move_file_down
    \/ sort_alphabetically
    \/ sort_numerically
    \/ toggle_drag_drop
    \/ DragRow
    \/ merge_pdfs

SpecApp == InitApp /\ [][NextApp]_vars

----------------------------------------------------------------------------
(* Properties of parse_page_selection, under SpecParse *)

Returned == parse_pc = "returned"

StrictlyAscending(list) ==
    \A a, b \in 1..Len(list) : a < b => list[a] < list[b]

\* C6: for every selection string and every total_pages >= 0 the returned list
\* is strictly ascending (so it holds no duplicate) and each of its elements i
\* satisfies 0 <= i < total_pages.
C6_ResultAscendingInRange ==
    Returned =>
        /\ StrictlyAscending(parse_result)
        /\ \A k \in 1..Len(parse_result) :
              0 <= parse_result[k] /\ parse_result[k] < parse_total

\* a call that returned a range clamped at the last page and deduplicated
C6_Witness ==
    /\ Returned
    /\ parse_selection = <<"2", "-", "1", "0", ",", "2">>
    /\ parse_total = 4
    /\ parse_result = <<1, 2, 3>>

\* the comma-separated items of the string
Items(text) == Split(text, ",")

NoPages == [inc |-> {}, exc |-> {}]

\* the indices one item contributes as an include item and as an exclude item
ItemIncluded(item, total) == ParsePart(item, total, NoPages).inc
ItemExcluded(item, total) == ParsePart(item, total, NoPages).exc

IncludedUnion(text, total) ==
    UNION {ItemIncluded(Items(text)[k], total) : k \in 1..Len(Items(text))}

ExcludedUnion(text, total) ==
    UNION {ItemExcluded(Items(text)[k], total) : k \in 1..Len(Items(text))}

IsListOf(list, S) ==
    /\ StrictlyAscending(list)
    /\ {list[k] : k \in 1..Len(list)} = S

\* C7: with included and excluded the unions of the index sets of the include
\* items and of the exclude items, the result lists (included if it is
\* non-empty, otherwise all of 0..total_pages-1) minus excluded; "-1" on 5
\* pages gives [1,2,3,4], "1,3,5-7" on 10 pages gives [0,2,4,5,6], and an
\* excluded page is removed even when an include item names it.
C7_IncludeExcludePrecedence ==
    Returned =>
        /\ LET included == IncludedUnion(parse_selection, parse_total)
               excluded == ExcludedUnion(parse_selection, parse_total)
               base == IF included # {} THEN included ELSE 0..(parse_total - 1)
           IN  /\ IsListOf(parse_result, base \ excluded)
               /\ \A k \in 1..Len(parse_result) : parse_result[k] \notin excluded
        /\ (parse_selection = <<"-", "1">> /\ parse_total = 5)
              => parse_result = <<1, 2, 3, 4>>
        /\ (parse_selection = <<"1", ",", "3", ",", "5", "-", "7">> /\ parse_total = 10)
              => parse_result = <<0, 2, 4, 5, 6>>
        /\ (parse_selection = <<"1", ",", "-", "1">> /\ parse_total = 5)
              => parse_result = <<>>

\* a call whose selection includes pages 1-2 and excludes page 1
C7_Witness ==
    /\ Returned
    /\ parse_selection = <<"1", "-", "2", ",", "-", "1">>
    /\ parse_total = 3
    /\ IncludedUnion(parse_selection, parse_total) = {0, 1}
    /\ ExcludedUnion(parse_selection, parse_total) = {0}
    /\ parse_result = <<1>>

\* an item is malformed when it is empty or holds non-numeric text: a
\* character that is neither a digit, nor a sign, nor a blank
Malformed(item) ==
    \/ Strip(item) = <<>>
    \/ \E k \in 1..Len(item) : item[k] \notin Digits \cup {"-", "+", " "}

\* ','.join(list)
RECURSIVE Join(_)
Join(list) ==
    IF list = <<>> THEN <<>>
    ELSE IF Len(list) = 1 THEN list[1]
    ELSE list[1] \o <<",">> \o Join(Tail(list))

WellFormed(item) == ~Malformed(item)

\* the string with every malformed item removed
WithoutMalformed(text) == Join(SelectSeq(Items(text), WellFormed))

\* C8: parsing returns a list for every input string, and the result equals
\* the result for the same string with every malformed comma-separated item
\* removed; "1,abc,3" on 5 pages gives [0,2] and "1,,3" behaves as "1,3".
C8_MalformedItemsIsolated ==
    /\ parse_pc \in {"ready", "returned"}
    /\ Returned =>
        /\ parse_result =
              parse_page_selection(WithoutMalformed(parse_selection), parse_total)
        /\ (parse_selection = <<"1", ",", "a", "b", "c", ",", "3">> /\ parse_total = 5)
              => parse_result = <<0, 2>>
        /\ (parse_selection = <<"1", ",", ",", "3">> /\ parse_total = 5)
              => parse_result = <<0, 2>>

\* a call on "1,3x,5": the middle item is malformed and its neighbours count
C8_Witness ==
    /\ Returned
    /\ parse_selection = <<"1", ",", "3", "x", ",", "5">>
    /\ parse_total = 5
    /\ WithoutMalformed(parse_selection) = <<"1", ",", "5">>
    /\ parse_result = <<0, 4>>

----------------------------------------------------------------------------
(* Properties of PdfMergerThread.run, under Spec and SpecLive *)

EventsOf(kind) == {k \in 1..Len(events) : events[k].kind = kind}

Finished == EventsOf("finished")

\* the positions where opening or reading a document failed
DocumentFailures == EventsOf("open_failed") \cup EventsOf("read_failed")

Done == pc = "done"

Succeeded == Done /\ events[Len(events)] = EvFinished(TRUE, MsgSuccess)

\* C1: if opening document k, or reading its page count or its pages, fails,
\* then no document after k is opened, no further progress value is emitted,
\* the output file is never opened or written, and the single terminal
\* outcome is a failure whose message identifies document k.
C1_FailFast ==
    \A f \in DocumentFailures :
        LET k == events[f].doc
        IN  /\ Done
            /\ \A j \in EventsOf("open") : events[j].doc <= k
            /\ \A j \in EventsOf("open_failed") : events[j].doc <= k
            /\ \A j \in EventsOf("progress") : j < f
            /\ EventsOf("out_open") = {} /\ EventsOf("out_written") = {}
            /\ disk = Untouched
            /\ Finished = {f + 1}
            /\ Len(events) = f + 1
            /\ events[f + 1] = EvFinished(FALSE, MsgErrorProcessing(pdf_files[k]))

\* document 2 of 3 failed to open after document 1 had added pages
C1_Witness ==
    /\ Len(pdf_files) = 3
    /\ \E f \in EventsOf("open_failed") : events[f].doc = 2
    /\ Len(writer) > 0
    /\ Done

\* C2: in every state the job ends in, also when the final write failed
\* part-way, the destination either holds the complete merged document or is
\* exactly as it was before the job started.
C2_AtomicCommit ==
    Done => \/ disk = Untouched
            \/ disk = [touched |-> TRUE, content |-> writer]

\* at most one outcome, none before the end, nothing after it, and a success
\* only after the completed write
OutcomeSafety ==
    /\ Cardinality(Finished) = IF Done THEN 1 ELSE 0
    /\ \A f \in Finished : f = Len(events)
    /\ \A f \in Finished :
          events[f].ok =>
              /\ \E w \in EventsOf("out_written") : w < f
              /\ disk = [touched |-> TRUE, content |-> writer]

\* C3: every execution of run emits exactly one terminal outcome, on every
\* path (success, per-document error, empty result, write error): the job
\* reaches its end, where the log holds exactly one outcome; a success outcome
\* is emitted only after the output write has completed; and no progress
\* value, and nothing else, follows the outcome.
C3_ExactlyOneOutcome == []OutcomeSafety /\ <>Done

\* the job ended on the write-error path, after both progress and a truncation
C3_Witness ==
    /\ Done
    /\ events[Len(events)] = EvFinished(FALSE, MsgErrorDuringMerge)
    /\ EventsOf("out_open") # {}
    /\ Len(pdf_files) >= 2

\* the selection submitted for document d and the pages it resolves to
SubmittedSelection(d) ==
    DictGet(submitted_selections, submitted_files[d], DefaultSelection)

ResolvedPages(d) ==
    parse_page_selection(SubmittedSelection(d), fs[submitted_files[d]].pages)

\* the pages of documents 1..d, document after document
RECURSIVE Concatenation(_)
Concatenation(d) ==
    IF d = 0 THEN <<>>
    ELSE Concatenation(d - 1) \o
         [k \in 1..Len(ResolvedPages(d)) |->
             [doc |-> d, path |-> submitted_files[d], page |-> ResolvedPages(d)[k]]]

\* C4: on success the sequence of pages added to the output is exactly the
\* concatenation, in the order of the submitted document list, of each
\* document's resolved page indices in ascending order; pages of different
\* documents are never interleaved, whatever the file names are.
C4_OutputOrder ==
    Succeeded =>
        /\ writer = Concatenation(Len(submitted_files))
        /\ disk.content = writer
        /\ \A a, b \in 1..Len(writer) :
              a < b => \/ writer[a].doc < writer[b].doc
                       \/ /\ writer[a].doc = writer[b].doc
                          /\ writer[a].page < writer[b].page

\* b1.pdf before a2.pdf, document 1 resolved to [1] and document 2 to [0, 1]
C4_Witness ==
    /\ Succeeded
    /\ submitted_files = << <<"p", "b1.pdf">>, <<"p", "a2.pdf">> >>
    /\ ResolvedPages(1) = <<1>>
    /\ ResolvedPages(2) = <<0, 1>>
    /\ Len(disk.content) = 3

\* every document of the job was opened and its selection resolved to no page
AllSelectionsEmpty ==
    \A d \in 1..Len(pdf_files) :
        /\ fs[pdf_files[d]].known
        /\ fs[pdf_files[d]].opens
        /\ ResolvedPages(d) = <<>>

\* C5: if every document's selection resolves to an empty page set, or the job
\* holds no document, the job ends with a failure outcome and the output file
\* is never opened or written.
C5_EmptyResult ==
    (Done /\ AllSelectionsEmpty) =>
        /\ events[Len(events)] = EvFinished(FALSE, MsgNoPages)
        /\ EventsOf("out_open") = {} /\ EventsOf("out_written") = {}
        /\ disk = Untouched

\* two documents with pages, each selection resolved to nothing
C5_Witness ==
    /\ Done
    /\ Len(pdf_files) = 2
    /\ AllSelectionsEmpty
    /\ \A d \in 1..2 : fs[pdf_files[d]].pages > 0
    /\ Cardinality(EventsOf("select")) = 2

----------------------------------------------------------------------------
(* Property of the caller's objects, under SpecCaller *)

\* C9: the job's document list and its per-document selections are copied when
\* the job is constructed, so that no mutation the caller makes afterwards to
\* the list or to the mapping changes which documents are merged, their order
\* or the selection applied to any of them.
C9_SnapshotIsolation ==
    (pc # "init") =>
        /\ pdf_files = submitted_files
        /\ \A k \in EventsOf("select") :
              events[k].text = SubmittedSelection(events[k].doc)

----------------------------------------------------------------------------
(* Property of the progress stream, under SpecProgress *)

\* the progress value emitted last before position k of the log
IsProgressFor(k, d) ==
    /\ k > 1
    /\ events[k - 1].kind = "progress"
    /\ events[k - 1].n = (100 * (d - 1)) \div Len(pdf_files)

\* C10: for a job of n documents the value floor(i / n * 100) is emitted
\* before document i (0-based) is opened, every emitted value lies in
\* [0, 100], and the emitted values never decrease.
C10_ProgressStream ==
    /\ \A k \in EventsOf("open") \cup EventsOf("open_failed") :
          IsProgressFor(k, events[k].doc)
    /\ \A k \in EventsOf("progress") : events[k].n \in 0..100
    /\ \A a, b \in EventsOf("progress") : a < b => events[a].n <= events[b].n

----------------------------------------------------------------------------
(* Property of the end of the loop, under Spec *)

\* every document of the job was opened and its pages selected, none failed
LoopCompleted ==
    /\ DocumentFailures = {}
    /\ \A d \in 1..Len(pdf_files) : \E k \in EventsOf("select") : events[k].doc = d

\* C11: whenever every document of the job has been processed without error,
\* progress 100 is emitted before the terminal outcome, both when the job then
\* succeeds and when it then fails because no page was accumulated.
C11_LoopCompletion ==
    \A f \in Finished :
        (LoopCompleted /\ events[f] \in {EvFinished(TRUE, MsgSuccess),
                                         EvFinished(FALSE, MsgNoPages)}) =>
            \E p \in EventsOf("progress") : p < f /\ events[p].n = 100

----------------------------------------------------------------------------
(* Properties of the items of a selection, under SpecParse *)

\* the text of an item after its polarity: a leading '-' marks an exclude item
IsExcludeItem(item) == Strip(item) # <<>> /\ Strip(item)[1] = "-"

ItemBody(item) == IF IsExcludeItem(item) THEN Tail(Strip(item)) ELSE Strip(item)

\* a range item writes a '-' after its polarity; its bounds are the texts
\* before and after that '-'
IsRangeItem(item) == Find(ItemBody(item), "-") # 0

LowBound(item) == SplitOnce(ItemBody(item), "-")[1]

HighBound(item) == SplitOnce(ItemBody(item), "-")[2]

\* the digits of a number written without a minus sign: blanks around it and
\* one '+' in front of it are allowed
Unsigned(text) ==
    LET t == Strip(text)
    IN  IF t # <<>> /\ t[1] = "+" THEN Tail(t) ELSE t

IsNumber(text) == AllDigits(Unsigned(text))

NumberValue(text) == DigitsValue(Unsigned(text))

IsPositive(text) == IsNumber(text) /\ NumberValue(text) >= 1

\* a well-formed include item: a positive page number, or a range of positive
\* page numbers whose end may be left open
IncludeItem(item) ==
    /\ Strip(item) # <<>>
    /\ ~IsExcludeItem(item)
    /\ IF IsRangeItem(item)
       THEN /\ IsPositive(LowBound(item))
            /\ HighBound(item) = <<>> \/ IsPositive(HighBound(item))
       ELSE IsPositive(ItemBody(item))

\* index idx is one of the pages the include item names
Covers(item, idx) ==
    IF IsRangeItem(item)
    THEN /\ NumberValue(LowBound(item)) - 1 <= idx
         /\ HighBound(item) = <<>> \/ idx <= NumberValue(HighBound(item)) - 1
    ELSE idx = NumberValue(ItemBody(item)) - 1

\* C12: whenever the selection string holds at least one well-formed include
\* item, every index of the result is covered by some include item; a
\* selection whose only include item names a page beyond the last page ("20"
\* on 10 pages) returns no page that no include item names.
C12_IncludesNarrow ==
    Returned =>
        LET items    == Items(parse_selection)
            includes == {k \in 1..Len(items) : IncludeItem(items[k])}
        IN  includes # {} =>
                \A r \in 1..Len(parse_result) :
                    \E k \in includes : Covers(items[k], parse_result[r])

\* a range item whose bounds are written as numbers or left out, the lower
\* one at least 1
RangeWithBounds(item) ==
    /\ IsRangeItem(item)
    /\ LowBound(item) = <<>> \/ IsPositive(LowBound(item))
    /\ HighBound(item) = <<>> \/ IsNumber(HighBound(item))

\* the indices i with a-1 <= i <= min(b, total)-1
RangeIndices(item, total) ==
    LET a == IF LowBound(item) = <<>> THEN 1 ELSE NumberValue(LowBound(item))
        b == IF HighBound(item) = <<>> THEN total ELSE NumberValue(HighBound(item))
    IN  {idx \in 0..(total - 1) : a - 1 <= idx /\ idx <= Min(b, total) - 1}

NonPositiveLiteral(text) ==
    \/ IsNumber(text) /\ NumberValue(text) = 0
    \/ Strip(text) # <<>> /\ Strip(text)[1] = "-" /\ AllDigits(Tail(Strip(text)))

\* the item uses 0 or a negative literal as its page number or as a bound
UsesNonPositive(item) ==
    IF IsRangeItem(item)
    THEN NonPositiveLiteral(LowBound(item)) \/ NonPositiveLiteral(HighBound(item))
    ELSE NonPositiveLiteral(ItemBody(item))

\* C14: an item that uses 0 or a negative literal as a page number, as a
\* single page ("0") or as a range bound ("0-3", "1--3"), is dropped: it
\* contributes no index to the included set and none to the excluded set.
C14_OneBasedPages ==
    Returned =>
        \A k \in 1..Len(Items(parse_selection)) :
            LET item == Items(parse_selection)[k]
            IN  UsesNonPositive(item) =>
                    /\ ItemIncluded(item, parse_total) = {}
                    /\ ItemExcluded(item, parse_total) = {}

----------------------------------------------------------------------------
(* Property of the list of files of PDFMergerApp, under SpecApp *)

\* the two lists hold the same paths, each as often as the other
IsPermutation(list1, list2) ==
    /\ Len(list1) = Len(list2)
    /\ \A p \in Paths :
          Cardinality({k \in 1..Len(list1) : list1[k] = p})
              = Cardinality({k \in 1..Len(list2) : list2[k] = p})

\* a step of one of the reordering operations
ReorderingStep ==
    \/ move_file_up
    \/ move_file_down
    \/ sort_alphabetically
    \/ sort_numerically
    \/ toggle_drag_drop
    \/ DragRow
    \/ merge_pdfs

\* C15: after any sequence of front-end operations, every reordering
\* operation (move up, move down, both sorts, update_pdf_files_from_list after
\* a drag, when drag mode is left and at merge time) leaves pdf_files a
\* permutation of its previous value: no path is lost and none is duplicated,
\* also when two listed files of different directories share a file name.
C15_ReorderingPermutes ==
    [][ReorderingStep => IsPermutation(caller_files, caller_files')]_vars

====
